---- MODULE Spec2Model ----
(***************************************************************************)
(* Model of scripts/flag_sessions_for_review.py: the four detection rules, *)
(* the review-queue writer (flag_session_for_review), the orchestrator     *)
(* (run_checks) and the exit behaviour of main, over a relational store    *)
(* made of the tables sessions, memberships, session_absences and          *)
(* review_queue.                                                           *)
(*                                                                         *)
(* Column values are integers.  NULL is SQL NULL / Python None, EMPTY is   *)
(* a value that is not NULL but is falsy in Python ('' or 0), and          *)
(* 1, 2, ... are ordinary values.  SQLite sorts NULL first and '' before   *)
(* any other text, so the order of the integers is the order ORDER BY      *)
(* uses.  The column ordinal_number is selected by every rule and read by  *)
(* none of the code, so rows do not carry it.                              *)
(***************************************************************************)
EXTENDS Integers, Sequences, FiniteSets, TLC

VARIABLES
    \* ---- the store
    db_sessions,      \* table sessions: a set of rows
    db_memberships,   \* table memberships: a set of rows
    db_absences,      \* table session_absences: a set of rows
    review_queue,     \* table review_queue: a set of rows
    db_found,         \* whether get_local_db_path finds the local file
    \* ---- the invocation (parsed command line)
    criteria, dry_run, use_remote,
    \* ---- main / run_checks
    pc,               \* "main", "loop", "cand", "done"
    ci,               \* position in criteria
    sessions,         \* rows returned by the current check function
    si,               \* position in sessions
    flagged_count,
    results,          \* [total_flagged, by_criteria]
    exit_code,        \* NULL while running, then 0 or 1
    \* ---- the environment
    faults,           \* failures the environment has injected
    \* ---- observation (history) variables
    fault_log,        \* kinds of failure injected so far in this run
    call,             \* the call of flag_session_for_review just made
    notice,           \* the "[DRY RUN] Would flag ..." line just printed
    run,              \* 1 in the first invocation, 2 in the second
    first_results,    \* what the first invocation's run_checks returned
    rq_at_start,      \* review_queue when the current invocation started
    rq_at_fault,      \* review_queue when the last failure happened
    calls_made,       \* writer calls made by the current invocation
    calls_failed,     \* writer calls that returned False
    found_sum,        \* candidates returned to the current invocation
    query_log,        \* the rule queries of this invocation, in order
    q_outcome,        \* how the external command of the current query ended
    \* ---- resources of the process and of its working directory
    open_conns,       \* sqlite3 connections opened and not closed
    temp_files,       \* temporary SQL files that exist
    \* ---- the remote writer's statement, character by character
    lit_pc,           \* "idle", "bound", "written", "executed"
    lit_session_id, lit_issue_type, lit_description,
    lit_statement,    \* the text written to the temporary SQL file
    lit_parsed        \* what the store reads in the statement

vars == <<db_sessions, db_memberships, db_absences, review_queue, db_found,
          criteria, dry_run, use_remote, pc, ci, sessions, si, flagged_count,
          results, exit_code, faults, fault_log, call, notice, run,
          first_results, rq_at_start, rq_at_fault, calls_made, calls_failed,
          found_sum, query_log, q_outcome, open_conns, temp_files, lit_pc,
          lit_session_id, lit_issue_type, lit_description, lit_statement,
          lit_parsed>>

store == <<db_sessions, db_memberships, db_absences, db_found>>
invocation == <<criteria, dry_run, use_remote>>
resources == <<open_conns, temp_files>>
literal == <<lit_pc, lit_session_id, lit_issue_type, lit_description,
             lit_statement, lit_parsed>>

----------------------------------------------------------------------------
(* Bounds of the model *)

MaxSessions == 2
MaxCriteria == 2
MaxPersons == 2
MaxFaults == 1
MaxChars == 2

----------------------------------------------------------------------------
(* Values *)

NULL == -1
EMPTY == 0

\* Python truthiness of a column value: `not v` is true of None, '' and 0.
Falsy(v) == v = NULL \/ v = EMPTY

\* SQL  x IN (set)  is true only for a non-NULL x that is in the set.
SqlIn(x, S) == x # NULL /\ x \in S

\* SQL  x NOT IN (set)  is true only when x is non-NULL, differs from every
\* member and no member is NULL.
SqlNotIn(x, S) == x # NULL /\ NULL \notin S /\ x \notin S

check_functions ==
    {"missing_data", "duplicate_dates", "incomplete_attendance", "auto_imported"}

\* A row as execute_query returns it: the selected columns of a session; a
\* column the query does not select holds NULL (dict.get finds nothing).
ResultRow(s, absences, members) ==
    [id |-> s.id, date |-> s.date, type |-> s.type, term_id |-> s.term_id,
     created_at |-> s.created_at,
     absence_count |-> absences, term_member_count |-> members]

\* dict.get(key, default) on a result row
Get(v, default) == IF v = NULL THEN default ELSE v

\* Every sequence that lists the rows of R once; key[r] is the ORDER BY
\* value, ascending.  Rows with equal keys come in any order, and a query
\* without ORDER BY is ordered with a constant key.
RECURSIVE Listings(_)
Listings(R) ==
    IF R = {} THEN {<<>>}
    ELSE UNION {{<<r>> \o q : q \in Listings(R \ {r})} : r \in R}

Orderings(R, key) ==
    {q \in Listings(R) :
        \A i, j \in 1..Len(q) : i < j => key[q[i]] <= key[q[j]]}


----------------------------------------------------------------------------
(* Detection rules: each is the set of row sequences its query can return *)

\* WHERE date IS NULL OR type IS NULL OR term_id IS NULL
MissingDataRows(S) ==
    {s \in S : s.date = NULL \/ s.type = NULL \/ s.term_id = NULL}

detect_missing_data_sessions(S) ==
    LET rows == {ResultRow(s, NULL, NULL) : s \in MissingDataRows(S)}
    IN  Orderings(rows, [r \in rows |-> 0])

\* Mutant of DuplicatedDates: HAVING COUNT(*) >= 1
DuplicatedDatesAtLeastOnce(S) ==
    LET dated == {s \in S : s.date # NULL}
    IN  {d \in {s.date : s \in dated} :
            Cardinality({s \in dated : s.date = d}) >= 1}

\* SELECT date FROM sessions WHERE date IS NOT NULL
\* GROUP BY date HAVING COUNT(*) > 1
DuplicatedDates(S) ==
    LET dated == {s \in S : s.date # NULL}
    IN  {d \in {s.date : s \in dated} :
            Cardinality({s \in dated : s.date = d}) > 1}

\* WHERE date IN (...)
DuplicateDateRows(S) == {s \in S : SqlIn(s.date, DuplicatedDates(S))}

\* ... ORDER BY date
detect_duplicate_dates(S) ==
    LET rows == {ResultRow(s, NULL, NULL) : s \in DuplicateDateRows(S)}
    IN  Orderings(rows, [r \in rows |-> r.date])

\* Mutant of AbsenceCount: COUNT(*), which also counts the row of NULLs
AbsenceCountStar(s, A) ==
    LET matching == {a \in A : a.session_id # NULL /\ a.session_id = s.id}
        joined == IF matching = {}
                  THEN {[session_id |-> NULL, person_id |-> NULL]}
                  ELSE matching
    IN  Cardinality(joined)

\* COUNT(sa.person_id) over sessions s LEFT JOIN session_absences sa
\* ON s.id = sa.session_id: a session without absence rows joins one row of
\* NULLs, and COUNT(column) counts the joined rows whose column is not NULL.
AbsenceCount(s, A) ==
    LET matching == {a \in A : a.session_id # NULL /\ a.session_id = s.id}
        joined == IF matching = {}
                  THEN {[session_id |-> NULL, person_id |-> NULL]}
                  ELSE matching
    IN  Cardinality({a \in joined : a.person_id # NULL})

\* (SELECT COUNT(*) FROM memberships WHERE term_id = s.term_id)
TermMemberCount(s, M) ==
    Cardinality({m \in M : m.term_id # NULL /\ m.term_id = s.term_id})

\* WHERE s.term_id IS NOT NULL GROUP BY s.id HAVING term_member_count > 0
IncompleteAttendanceQuery(S, M, A) ==
    {ResultRow(s, AbsenceCount(s, A), TermMemberCount(s, M)) :
        s \in {t \in S : t.term_id # NULL /\ TermMemberCount(t, M) > 0}}

\* The loop after the query: rows whose term_member_count is 0 are skipped.
IncompleteAttendanceFilter(R) ==
    {r \in R : Get(r.term_member_count, 0) # 0}

\* ... ORDER BY s.date DESC; the loop keeps the order of the query.
detect_incomplete_attendance(S, M, A) ==
    LET rows == IncompleteAttendanceQuery(S, M, A)
    IN  {SelectSeq(q, LAMBDA r : r \in IncompleteAttendanceFilter(rows)) :
            q \in Orderings(rows, [r \in rows |-> 0 - r.date])}

\* Mutant of ResolvedItemIds: the status is not looked at
ResolvedItemIdsAnyStatus(RQ) ==
    {r.item_id : r \in {q \in RQ : q.item_type = "session"}}

\* SELECT item_id FROM review_queue
\* WHERE item_type = 'session' AND status = 'resolved'
ResolvedItemIds(RQ) ==
    {r.item_id : r \in {q \in RQ : q.item_type = "session" /\ q.status = "resolved"}}

\* WHERE id NOT IN (...)
AutoImportedRows(S, RQ) == {s \in S : SqlNotIn(s.id, ResolvedItemIds(RQ))}

\* ... ORDER BY created_at DESC
detect_auto_imported_unreviewed(S, RQ) ==
    LET rows == {ResultRow(s, NULL, NULL) : s \in AutoImportedRows(S, RQ)}
    IN  Orderings(rows, [r \in rows |-> 0 - r.created_at])

\* check_functions[criterion](use_remote) on the current store
CheckFunction(criterion) ==
    CASE criterion = "missing_data" -> detect_missing_data_sessions(db_sessions)
      [] criterion = "duplicate_dates" -> detect_duplicate_dates(db_sessions)
      [] criterion = "incomplete_attendance" ->
            detect_incomplete_attendance(db_sessions, db_memberships, db_absences)
      [] criterion = "auto_imported" ->
            detect_auto_imported_unreviewed(db_sessions, review_queue)

----------------------------------------------------------------------------
(* run_checks: the description of a candidate *)

\* A description: the fixed text, the names it lists and the values it quotes.
Desc(text, fields, a, b) == [text |-> text, fields |-> fields, a |-> a, b |-> b]

\* missing = []; if not session.get(col): missing.append(col) for the
\* three columns in turn
MissingFields(session) ==
    (IF Falsy(session.date) THEN <<"date">> ELSE <<>>)
    \o (IF Falsy(session.type) THEN <<"type">> ELSE <<>>)
    \o (IF Falsy(session.term_id) THEN <<"term_id">> ELSE <<>>)

Description(criterion, session) ==
    CASE criterion = "missing_data" ->
            Desc("Missing required fields", MissingFields(session), NULL, NULL)
      [] criterion = "duplicate_dates" ->
            Desc("Duplicate session date", <<>>, session.date, NULL)
      [] criterion = "incomplete_attendance" ->
            Desc("Incomplete attendance", <<>>,
                 Get(session.absence_count, 0), Get(session.term_member_count, 0))
      [] OTHER -> Desc("Session flagged for", <<criterion>>, NULL, NULL)

----------------------------------------------------------------------------
(* The review-queue writer, flag_session_for_review *)

\* params: a fresh id and timestamp, item_type 'session', status 'pending'
NewEntry(review_id, session_id, issue_type, description, now) ==
    [id |-> review_id, item_type |-> "session", item_id |-> session_id,
     issue_type |-> issue_type, description |-> description,
     status |-> "pending", created_at |-> now]

\* The store's constraints on review_queue: the primary key id and the
\* uniqueness constraint over (item_type, item_id, issue_type).
IntegrityViolation(RQ, row) ==
    \E r \in RQ :
        \/ r.id = row.id
        \/ /\ r.item_type = row.item_type
           /\ r.item_id = row.item_id
           /\ r.issue_type = row.issue_type

\* Mutant of ExecuteInsert: INSERT OR REPLACE, which deletes the rows the
\* new one conflicts with.
ExecuteInsertOrReplace(RQ, row) ==
    [rq |-> {r \in RQ : ~IntegrityViolation({r}, row)} \cup {row},
     error |-> "none"]

\* INSERT INTO review_queue (...) VALUES (...): the table afterwards and the
\* error the store raised.
ExecuteInsert(RQ, row) ==
    IF IntegrityViolation(RQ, row)
    THEN [rq |-> RQ, error |-> "integrity"]
    ELSE [rq |-> RQ \cup {row}, error |-> "none"]

\* Mutant of LocalReturn: IntegrityError is reported as a failure.
LocalReturnStrict(error) == error = "none"

\* Local mode: what the try/except around the insert returns.
LocalReturn(error) ==
    CASE error = "none" -> TRUE
      [] error = "integrity" -> TRUE
      [] OTHER -> FALSE

\* What the external command prints: nothing, text that is not JSON, the
\* JSON list [{"results": rows, ...}] or a bare JSON list of rows.
EmptyOutput == [form |-> "empty", rows |-> <<>>]
MalformedOutput == [form |-> "malformed", rows |-> <<>>]
Envelope(rows) == [form |-> "envelope", rows |-> rows]

\* run_wrangler_command: stdout when the command exits 0, None when it exits
\* non-zero or npx is missing.
run_wrangler_command(exit_ok, stdout) ==
    IF exit_ok THEN [is_none |-> FALSE, out |-> stdout]
               ELSE [is_none |-> TRUE, out |-> EmptyOutput]

\* Remote mode: return result is not None
RemoteReturn(result) == ~result.is_none

\* parse_wrangler_output: None and '' give [], text json.loads rejects gives
\* [], a list whose first element has 'results' gives those rows, another
\* non-empty list is returned as it is, anything else gives [].
parse_wrangler_output(result) ==
    IF result.is_none \/ result.out.form = "empty" THEN <<>>
    ELSE CASE result.out.form = "malformed" -> <<>>
           [] result.out.form = "envelope" -> result.out.rows
           [] result.out.form = "list" -> result.out.rows
           [] OTHER -> <<>>

\* The ways the external command of a query can end, and what
\* run_wrangler_command returns in each.
RemoteFailures ==
    {"exit_nonzero", "no_executable", "empty_output", "malformed_output"}
CommandResult(outcome, rows) ==
    CASE outcome = "ok" -> run_wrangler_command(TRUE, Envelope(rows))
      [] outcome = "exit_nonzero" -> run_wrangler_command(FALSE, EmptyOutput)
      [] outcome = "no_executable" -> run_wrangler_command(FALSE, EmptyOutput)
      [] outcome = "empty_output" -> run_wrangler_command(TRUE, EmptyOutput)
      [] outcome = "malformed_output" ->
            run_wrangler_command(TRUE, MalformedOutput)

----------------------------------------------------------------------------
(* Connections and temporary files *)

\* execute_query, local mode: conn = get_db_connection(), cursor.execute,
\* fetchall, conn.close(), with no try around them.
LocalQueryConnections(n, raised) ==
    IF raised THEN n + 1 ELSE (n + 1) - 1

\* flag_session_for_review, local mode: conn = get_db_connection(), then
\* conn.close() in the try and in both except clauses.
LocalWriteConnections(n, error) ==
    CASE error = "none" -> (n + 1) - 1
      [] error = "integrity" -> (n + 1) - 1
      [] OTHER -> (n + 1) - 1

QueryFile == [name |-> ".temp_query.sql", id |-> 0]
InsertFile(id) == [name |-> ".temp_insert_.sql", id |-> id]

\* execute_query, remote mode: the file is written, the command run in a
\* try and the file removed in its finally.
RemoteQueryFiles(files) == (files \cup {QueryFile}) \ {QueryFile}

\* Mutant of RemoteWriteFiles: the file is removed only when the command
\* gave a result.
RemoteWriteFilesOnSuccess(files, sql_file, result) ==
    IF result.is_none THEN files \cup {sql_file}
                      ELSE (files \cup {sql_file}) \ {sql_file}

\* flag_session_for_review, remote mode: the file is written, the command
\* run and os.remove(sql_file) called before  return result is not None,
\* whatever the result is (run_wrangler_command turns both failures of the
\* command into None).
RemoteWriteFiles(files, sql_file, result) ==
    (files \cup {sql_file}) \ {sql_file}

----------------------------------------------------------------------------
(* The statement of the remote writer.  A text is a sequence of characters; *)
(* review_id, 'session', 'pending' and now are letters and digits only and  *)
(* are written as the one-character texts r, s, p and t.                    *)

ReviewIdText == <<"r">>
ItemTypeText == <<"s">>
StatusText == <<"p">>
NowText == <<"t">>

\* params = (review_id, 'session', session_id, issue_type, description,
\*           'pending', now): what the local insert binds.
BoundValues(session_id, issue_type, description) ==
    <<ReviewIdText, ItemTypeText, session_id, issue_type, description,
      StatusText, NowText>>

\* text.replace("'", "''")
RECURSIVE Escape(_)
Escape(text) ==
    IF text = <<>> THEN <<>>
    ELSE (IF Head(text) = "'" THEN <<"'", "'">> ELSE <<Head(text)>>)
            \o Escape(Tail(text))

\* '{text}' inside the f-string
Quoted(text) == <<"'">> \o text \o <<"'">>

RECURSIVE JoinValues(_)
JoinValues(parts) ==
    IF Len(parts) = 0 THEN <<>>
    ELSE IF Len(parts) = 1 THEN parts[1]
    ELSE parts[1] \o <<",">> \o JoinValues(Tail(parts))

\* escaped_desc = description.replace("'", "''") and the f-string
\* INSERT INTO review_queue (...) VALUES ('{review_id}', 'session',
\* '{session_id}', '{issue_type}', '{escaped_desc}', 'pending', '{now}'):
\* the text from the opening to the closing parenthesis of VALUES, without
\* the blanks that follow the commas.
InsertStatement(session_id, issue_type, description) ==
    LET escaped_desc == Escape(description)
    IN  <<"(">>
        \o JoinValues(<<Quoted(ReviewIdText), Quoted(ItemTypeText),
                        Quoted(session_id), Quoted(issue_type),
                        Quoted(escaped_desc), Quoted(StatusText),
                        Quoted(NowText)>>)
        \o <<")">>

NoParse == [ok |-> FALSE, values |-> <<>>]

\* How SQL reads a string literal whose opening quote is before position i:
\* two quotes stand for one quote character, one quote ends the literal.
RECURSIVE ReadString(_, _, _)
ReadString(text, i, acc) ==
    IF i > Len(text) THEN [ok |-> FALSE, value |-> acc, next |-> i]
    ELSE IF text[i] = "'"
         THEN IF i + 1 <= Len(text) /\ text[i + 1] = "'"
              THEN ReadString(text, i + 2, Append(acc, "'"))
              ELSE [ok |-> TRUE, value |-> acc, next |-> i + 1]
         ELSE ReadString(text, i + 1, Append(acc, text[i]))

\* How SQL reads the list of VALUES from position i: literals separated by
\* commas, closed by the parenthesis that ends the statement.
RECURSIVE ReadValues(_, _, _)
ReadValues(text, i, acc) ==
    IF i > Len(text) \/ text[i] # "'" THEN NoParse
    ELSE LET lit == ReadString(text, i + 1, <<>>)
         IN  IF ~lit.ok \/ lit.next > Len(text) THEN NoParse
             ELSE IF text[lit.next] = ","
                  THEN ReadValues(text, lit.next + 1, Append(acc, lit.value))
             ELSE IF text[lit.next] = ")" /\ lit.next = Len(text)
                  THEN [ok |-> TRUE, values |-> Append(acc, lit.value)]
             ELSE NoParse

\* The values the store reads in the statement, or NoParse when the text is
\* not one well-formed list of string literals.
ParseStatement(text) ==
    IF Len(text) > 0 /\ text[1] = "(" THEN ReadValues(text, 2, <<>>)
    ELSE NoParse

----------------------------------------------------------------------------
(* main and run_checks *)

NoCall == [session_id |-> NULL, issue_type |-> "", returned |-> FALSE,
           existed |-> FALSE, faulted |-> FALSE, dry |-> FALSE, remote |-> FALSE]
NoNotice == [session_id |-> NULL, issue_type |-> "",
             description |-> Desc("", <<>>, NULL, NULL)]
NoResults == [total_flagged |-> 0, by_criteria |-> <<>>]

\* by_criteria is a dict: here a function from the kinds recorded so far.
SetItem(d, key, value) ==
    [k \in DOMAIN d \cup {key} |-> IF k = key THEN value ELSE d[k]]

criterion == criteria[ci]
session == sessions[si]

\* One query of a rule: the kind, whether the query failed, and the ids of
\* the sessions it returned.
LogEntry(kind, failed, rows) ==
    [kind |-> kind, failed |-> failed,
     ids |-> {rows[i].id : i \in 1..Len(rows)}]

\* main calls run_checks, which starts with empty results.
Main ==
    /\ pc = "main"
    /\ pc' = "loop"
    /\ ci' = 1
    /\ results' = NoResults
    /\ UNCHANGED <<store, literal, resources, query_log, q_outcome,
                   review_queue, invocation, sessions, si,
                   flagged_count, exit_code, faults, fault_log, call,
                   notice, run, first_results, rq_at_start, rq_at_fault,
                   calls_made, calls_failed, found_sum>>

\* Mutant of SkipUnknown: the loop is left instead of continued.
SkipUnknownStops ==
    /\ pc = "loop" /\ ci <= Len(criteria)
    /\ criterion \notin check_functions
    /\ ci' = Len(criteria) + 1
    /\ UNCHANGED <<store, literal, resources, query_log, q_outcome,
                   review_queue, invocation, pc, sessions, si,
                   flagged_count, results, exit_code, faults,
                   fault_log, call, notice, run, first_results, rq_at_start,
                   rq_at_fault, calls_made, calls_failed, found_sum>>

\* if criterion not in check_functions: warn and continue
SkipUnknown ==
    /\ pc = "loop" /\ ci <= Len(criteria)
    /\ criterion \notin check_functions
    /\ ci' = ci + 1
    /\ UNCHANGED <<store, literal, resources, query_log, q_outcome,
                   review_queue, invocation, pc, sessions, si,
                   flagged_count, results, exit_code, faults,
                   fault_log, call, notice, run, first_results, rq_at_start,
                   rq_at_fault, calls_made, calls_failed, found_sum>>

StartCandidates(rows) ==
    /\ sessions' = rows
    /\ si' = 1
    /\ flagged_count' = 0
    /\ pc' = "cand"
    /\ found_sum' = found_sum + Len(rows)
    /\ UNCHANGED <<store, literal,
                   review_queue, invocation, ci, results, exit_code,
                   call, notice, run, first_results, rq_at_start,
                   rq_at_fault, calls_made, calls_failed>>

\* Local mode: execute_query opens the store and returns the rows.
RunCheckLocal ==
    /\ pc = "loop" /\ ci <= Len(criteria)
    /\ criterion \in check_functions
    /\ ~use_remote /\ db_found
    /\ \E rows \in CheckFunction(criterion) :
          /\ StartCandidates(rows)
          /\ query_log' = Append(query_log, LogEntry(criterion, FALSE, rows))
    /\ q_outcome' = "ok"
    /\ open_conns' = LocalQueryConnections(open_conns, FALSE)
    /\ UNCHANGED <<faults, fault_log, temp_files>>

\* Mutant of RunCheckLocalFail: the error is caught, the rule yields no row
\* and the run goes on.
RunCheckLocalFailSwallowed ==
    /\ pc = "loop" /\ ci <= Len(criteria)
    /\ criterion \in check_functions
    /\ ~use_remote /\ db_found
    /\ faults < MaxFaults
    /\ faults' = faults + 1
    /\ fault_log' = fault_log \cup {"local_query"}
    /\ query_log' = Append(query_log, LogEntry(criterion, TRUE, <<>>))
    /\ q_outcome' = "local_error"
    /\ open_conns' = LocalQueryConnections(open_conns, FALSE)
    /\ StartCandidates(<<>>)
    /\ UNCHANGED temp_files

\* Local mode, cursor.execute raises (the store is locked, a table is
\* missing, ...): the exception leaves execute_query and run_checks, main
\* prints the error and exits 1.
RunCheckLocalFail ==
    /\ pc = "loop" /\ ci <= Len(criteria)
    /\ criterion \in check_functions
    /\ ~use_remote /\ db_found
    /\ faults < MaxFaults
    /\ faults' = faults + 1
    /\ fault_log' = fault_log \cup {"local_query"}
    /\ query_log' = Append(query_log, LogEntry(criterion, TRUE, <<>>))
    /\ q_outcome' = "local_error"
    /\ open_conns' = LocalQueryConnections(open_conns, TRUE)
    /\ rq_at_fault' = review_queue
    /\ pc' = "done"
    /\ exit_code' = 1
    /\ UNCHANGED <<store, literal, temp_files, review_queue, invocation, ci,
                   sessions, si, flagged_count, results, call, notice, run,
                   first_results, rq_at_start, calls_made, calls_failed,
                   found_sum>>

\* Local mode without a store file: get_db_connection raises
\* FileNotFoundError, nothing in run_checks catches it, main prints the
\* error and exits 1.
SetupFail ==
    /\ pc = "loop" /\ ci <= Len(criteria)
    /\ criterion \in check_functions
    /\ ~use_remote /\ ~db_found
    /\ pc' = "done"
    /\ exit_code' = 1
    /\ UNCHANGED <<store, literal, resources, query_log, q_outcome,
                   review_queue, invocation, ci, sessions, si,
                   flagged_count, results, faults, fault_log, call,
                   notice, run, first_results, rq_at_start, rq_at_fault,
                   calls_made, calls_failed, found_sum>>

\* Remote mode: the query goes through the external command.
RunCheckRemote ==
    /\ pc = "loop" /\ ci <= Len(criteria)
    /\ criterion \in check_functions
    /\ use_remote
    /\ \E found \in CheckFunction(criterion) :
          LET rows == parse_wrangler_output(CommandResult("ok", found))
          IN  /\ StartCandidates(rows)
              /\ query_log' = Append(query_log,
                                     LogEntry(criterion, FALSE, rows))
    /\ q_outcome' = "ok"
    /\ temp_files' = RemoteQueryFiles(temp_files)
    /\ UNCHANGED <<faults, fault_log, open_conns>>

\* Mutant of RunCheckRemoteFail: the failure of the command is raised to
\* main instead of being turned into an empty result.
RunCheckRemoteFailRaises ==
    /\ pc = "loop" /\ ci <= Len(criteria)
    /\ criterion \in check_functions
    /\ use_remote
    /\ faults < MaxFaults
    /\ faults' = faults + 1
    /\ fault_log' = fault_log \cup {"query"}
    /\ \E outcome \in RemoteFailures :
          /\ query_log' = Append(query_log, LogEntry(criterion, TRUE, <<>>))
          /\ q_outcome' = outcome
    /\ temp_files' = RemoteQueryFiles(temp_files)
    /\ pc' = "done"
    /\ exit_code' = 1
    /\ UNCHANGED <<store, literal, open_conns, review_queue, invocation, ci,
                   sessions, si, flagged_count, results, call, notice, run,
                   first_results, rq_at_start, rq_at_fault, calls_made,
                   calls_failed, found_sum>>

\* Remote mode, the external command exits non-zero, is missing, or prints
\* nothing or text that is not JSON: execute_query returns [].
RunCheckRemoteFail ==
    /\ pc = "loop" /\ ci <= Len(criteria)
    /\ criterion \in check_functions
    /\ use_remote
    /\ faults < MaxFaults
    /\ faults' = faults + 1
    /\ fault_log' = fault_log \cup {"query"}
    /\ \E outcome \in RemoteFailures :
          LET rows == parse_wrangler_output(CommandResult(outcome, <<>>))
          IN  /\ StartCandidates(rows)
              /\ query_log' = Append(query_log,
                                     LogEntry(criterion, TRUE, rows))
              /\ q_outcome' = outcome
    /\ temp_files' = RemoteQueryFiles(temp_files)
    /\ UNCHANGED open_conns

\* Whether review_queue already holds an entry for (session, issue kind).
Existing(RQ, session_id, issue_type) ==
    \E r \in RQ : /\ r.item_type = "session"
                  /\ r.item_id = session_id
                  /\ r.issue_type = issue_type

\* What a call of flag_session_for_review leaves behind, and the caller's
\* if flag_session_for_review(...): flagged_count += 1
Flagged(returned, rq, faulted) ==
    /\ review_queue' = rq
    /\ flagged_count' = IF returned THEN flagged_count + 1 ELSE flagged_count
    /\ si' = si + 1
    /\ call' = [session_id |-> session.id, issue_type |-> criterion,
                returned |-> returned,
                existed |-> Existing(review_queue, session.id, criterion),
                faulted |-> faulted, dry |-> dry_run, remote |-> use_remote]
    /\ calls_made' = calls_made + 1
    /\ calls_failed' = IF returned THEN calls_failed ELSE calls_failed + 1
    /\ rq_at_fault' = IF faulted THEN review_queue ELSE rq_at_fault
    /\ UNCHANGED <<store, literal, query_log, q_outcome,
                   invocation, pc, ci, sessions, results, exit_code,
                   run, first_results, rq_at_start, found_sum>>

\* review_id = uuid4: a value no other call and no older row has.  Only its
\* freshness matters, so it is named after the place of the call (the
\* invocation, the position in criteria, the session); rows that were in the
\* queue before have ids with 0 in the tens.
review_id == run * 100 + ci * 10 + session.id

\* now = utcnow(): the invocation number serves as the clock; rows that were
\* in the queue before are older (created_at 0).
now == run

Entry == NewEntry(review_id, session.id, criterion,
                  Description(criterion, session), now)

\* Mutant of FlagDryRun: the notice is printed and the insert done anyway.
FlagDryRunWrites ==
    /\ dry_run
    /\ notice' = [session_id |-> session.id, issue_type |-> criterion,
                  description |-> Description(criterion, session)]
    /\ Flagged(TRUE, ExecuteInsert(review_queue, Entry).rq, FALSE)
    /\ UNCHANGED <<faults, fault_log, resources>>

\* if dry_run: print the notice, return True
FlagDryRun ==
    /\ dry_run
    /\ notice' = [session_id |-> session.id, issue_type |-> criterion,
                  description |-> Description(criterion, session)]
    /\ Flagged(TRUE, review_queue, FALSE)
    /\ UNCHANGED <<faults, fault_log, resources>>

\* Local mode: cursor.execute, conn.commit
FlagLocal ==
    /\ ~dry_run /\ ~use_remote /\ db_found
    /\ LET done == ExecuteInsert(review_queue, Entry)
       IN  /\ Flagged(LocalReturn(done.error), done.rq, FALSE)
           /\ open_conns' = LocalWriteConnections(open_conns, done.error)
    /\ UNCHANGED <<faults, fault_log, notice, temp_files>>

\* Mutant of FlagLocalError: the exception leaves flag_session_for_review,
\* run_checks does not catch it and main exits 1.
FlagLocalErrorRaises ==
    /\ ~dry_run /\ ~use_remote /\ db_found
    /\ faults < MaxFaults
    /\ faults' = faults + 1
    /\ fault_log' = fault_log \cup {"write"}
    /\ pc' = "done"
    /\ exit_code' = 1
    /\ UNCHANGED <<store, literal, resources, query_log, q_outcome,
                   review_queue, invocation, ci, sessions, si,
                   flagged_count, results, call, notice, run,
                   first_results, rq_at_start, rq_at_fault, calls_made,
                   calls_failed, found_sum>>

\* Local mode, the insert fails with another exception than IntegrityError
\* (the store is locked, the disk is full, ...): nothing is committed.
FlagLocalError ==
    /\ ~dry_run /\ ~use_remote /\ db_found
    /\ faults < MaxFaults
    /\ faults' = faults + 1
    /\ fault_log' = fault_log \cup {"write"}
    /\ Flagged(LocalReturn("other"), review_queue, TRUE)
    /\ open_conns' = LocalWriteConnections(open_conns, "other")
    /\ UNCHANGED <<notice, temp_files>>

\* Remote mode: the literal INSERT is run by the external command, which
\* exits non-zero when the store rejects the statement.
FlagRemote ==
    /\ ~dry_run /\ use_remote
    /\ LET done == ExecuteInsert(review_queue, Entry)
           result == run_wrangler_command(done.error = "none", EmptyOutput)
       IN  /\ Flagged(RemoteReturn(result), done.rq, FALSE)
           /\ temp_files' = RemoteWriteFiles(temp_files,
                                             InsertFile(review_id), result)
    /\ UNCHANGED <<faults, fault_log, notice, open_conns>>

\* Remote mode, the external command fails (no network, npx missing).
FlagRemoteError ==
    /\ ~dry_run /\ use_remote
    /\ faults < MaxFaults
    /\ faults' = faults + 1
    /\ fault_log' = fault_log \cup {"write"}
    /\ LET result == run_wrangler_command(FALSE, EmptyOutput)
       IN  /\ Flagged(RemoteReturn(result), review_queue, TRUE)
           /\ temp_files' = RemoteWriteFiles(temp_files,
                                             InsertFile(review_id), result)
    /\ UNCHANGED <<notice, open_conns>>

flag_session_for_review ==
    \/ FlagDryRun
    \/ FlagLocal
    \/ FlagLocalError
    \/ FlagRemote
    \/ FlagRemoteError

\* session_id = session.get('id'); if not session_id: continue
SkipCandidate ==
    /\ si' = si + 1
    /\ UNCHANGED <<store, literal, resources, query_log, q_outcome,
                   review_queue, invocation, pc, ci, sessions,
                   flagged_count, results, exit_code, faults,
                   fault_log, call, notice, run, first_results, rq_at_start,
                   rq_at_fault, calls_made, calls_failed, found_sum>>

\* One turn of  for session in sessions
ProcessCandidate ==
    /\ pc = "cand" /\ si <= Len(sessions)
    /\ IF Falsy(session.id) THEN SkipCandidate ELSE flag_session_for_review

\* After the loop: the kind's entry of by_criteria and the running total.
FinishCriterion ==
    /\ pc = "cand" /\ si > Len(sessions)
    /\ results' =
          [total_flagged |-> results.total_flagged + flagged_count,
           by_criteria |-> SetItem(results.by_criteria, criterion,
                                   [found |-> Len(sessions),
                                    flagged |-> flagged_count])]
    /\ ci' = ci + 1
    /\ pc' = "loop"
    \* the loop's variables are dead until the next kind sets them
    /\ sessions' = <<>> /\ si' = 1 /\ flagged_count' = 0
    /\ call' = NoCall /\ notice' = NoNotice
    /\ q_outcome' = "none"
    /\ UNCHANGED <<store, literal, resources, query_log,
                   review_queue, invocation, exit_code, faults,
                   fault_log, run, first_results, rq_at_start, rq_at_fault,
                   calls_made, calls_failed, found_sum>>

\* run_checks returns, main prints the summary and the process exits 0.
Return ==
    /\ pc = "loop" /\ ci > Len(criteria)
    /\ pc' = "done"
    /\ exit_code' = 0
    /\ UNCHANGED <<store, literal, resources, query_log, q_outcome,
                   review_queue, invocation, ci, sessions, si,
                   flagged_count, results, faults, fault_log, call,
                   notice, run, first_results, rq_at_start, rq_at_fault,
                   calls_made, calls_failed, found_sum>>

\* The script is invoked a second time with the same arguments on the store
\* the first invocation left; the second invocation studied is the one that
\* follows an invocation in which the environment injected no failure.
Rerun ==
    /\ pc = "done" /\ run = 1 /\ fault_log = {}
    /\ run' = run + 1
    /\ pc' = "main"
    /\ exit_code' = NULL
    /\ first_results' = results
    /\ rq_at_start' = review_queue
    /\ rq_at_fault' = {}
    /\ calls_made' = 0 /\ calls_failed' = 0 /\ found_sum' = 0
    /\ sessions' = <<>> /\ si' = 1 /\ ci' = 1 /\ flagged_count' = 0
    /\ results' = NoResults
    /\ call' = NoCall /\ notice' = NoNotice
    /\ query_log' = <<>> /\ q_outcome' = "none"
    \* the first process has exited: its connections are gone, files stay
    /\ open_conns' = 0
    /\ UNCHANGED <<store, literal,
                   temp_files, review_queue, invocation, faults, fault_log>>

----------------------------------------------------------------------------
(* Spec: invocations of the script on a small store, in every mode *)

Kinds == check_functions \cup {"bogus"}

SeqsUpTo(S, n) == UNION {[1..m -> S] : m \in 0..n}

SessionIds == 1..MaxSessions

\* Sessions of the runs: the first n lack a date and the others share one,
\* so that the four rules return different candidates.
RunSessions ==
    {{[id |-> i, date |-> IF i <= n THEN NULL ELSE 1, type |-> 1,
       term_id |-> 1, created_at |-> i] : i \in SessionIds} :
        n \in 0..MaxSessions}

OldEntry(id, item_id, issue_type, status) ==
    [id |-> id, item_type |-> "session", item_id |-> item_id,
     issue_type |-> issue_type,
     description |-> Desc("Session flagged for", <<issue_type>>, NULL, NULL),
     status |-> status, created_at |-> 0]

RunQueues ==
    {{},
     {OldEntry(101, 1, "missing_data", "pending")},
     {OldEntry(101, 1, "auto_imported", "resolved")}}

\* The remote writer's statement is studied on its own (SpecLiteral).
LiteralIdle ==
    /\ lit_pc = "idle"
    /\ lit_session_id = <<>> /\ lit_issue_type = <<>> /\ lit_description = <<>>
    /\ lit_statement = <<>> /\ lit_parsed = NoParse

InitRun ==
    /\ pc = "main" /\ ci = 1 /\ sessions = <<>> /\ si = 1 /\ flagged_count = 0
    /\ results = NoResults /\ exit_code = NULL
    /\ fault_log = {} /\ call = NoCall /\ notice = NoNotice /\ run = 1
    /\ first_results = NoResults /\ rq_at_start = review_queue
    /\ rq_at_fault = {} /\ calls_made = 0 /\ calls_failed = 0 /\ found_sum = 0
    /\ query_log = <<>> /\ q_outcome = "none"
    /\ open_conns = 0 /\ temp_files = {}

Init ==
    /\ db_sessions \in RunSessions
    /\ db_memberships = {[term_id |-> 1, person_id |-> 1]}
    /\ db_absences = {[session_id |-> 1, person_id |-> 1]}
    /\ review_queue \in RunQueues
    /\ criteria \in SeqsUpTo(Kinds, MaxCriteria)
    /\ dry_run \in BOOLEAN
    /\ use_remote \in BOOLEAN
    /\ db_found \in BOOLEAN
    /\ faults = 0
    \* the local file matters in local mode only
    /\ ~db_found => ~use_remote
    /\ InitRun
    /\ LiteralIdle

Next ==
    \/ Main
    \/ SkipUnknown
    \/ RunCheckLocal
    \/ RunCheckLocalFail
    \/ SetupFail
    \/ RunCheckRemote
    \/ RunCheckRemoteFail
    \/ ProcessCandidate
    \/ FinishCriterion
    \/ Return
    \/ Rerun

Spec == Init /\ [][Next]_vars

----------------------------------------------------------------------------
(* SpecRules: one rule at a time, in preview mode, over the stores that    *)
(* vary what the rule reads                                                *)

\* missing_data reads date, type and term_id.
MissingStores ==
    {{[id |-> i, date |-> f[i][1], type |-> f[i][2], term_id |-> f[i][3],
       created_at |-> i] : i \in SessionIds} :
        f \in [SessionIds -> {NULL, EMPTY, 1} \X {NULL, EMPTY, 1} \X {NULL, EMPTY, 1}]}

\* duplicate_dates reads date; two shared dates beside a unique one need
\* five sessions.
DupSessionIds == 1..(MaxSessions + 3)
DupStores ==
    {{[id |-> i, date |-> f[i], type |-> 1, term_id |-> 1, created_at |-> i] :
        i \in DupSessionIds} : f \in [DupSessionIds -> {NULL, EMPTY, 1}]}

\* incomplete_attendance reads term_id, the memberships of each term and the
\* absences of each session.
AttendStores ==
    {{[id |-> i, date |-> i, type |-> 1, term_id |-> f[i], created_at |-> i] :
        i \in SessionIds} : f \in [SessionIds -> {NULL, EMPTY, 1}]}
Terms == {EMPTY, 1}
MembershipTables ==
    {{m \in [term_id : Terms, person_id : 1..MaxPersons] :
         m.person_id <= n[m.term_id]} :
        n \in [Terms -> 0..MaxPersons]}
AbsenceTables ==
    {{a \in [session_id : SessionIds, person_id : 1..MaxPersons] :
         a.person_id <= n[a.session_id]} :
        n \in [SessionIds -> 0..MaxPersons]}

\* auto_imported reads id, created_at and the review queue.
AutoStores ==
    {{[id |-> i, date |-> 1, type |-> 1, term_id |-> 1, created_at |-> f[i]] :
        i \in SessionIds} : f \in [SessionIds -> {1, 2}]}
QueueEntries ==
    UNION {{OldEntry(100 + i, i, "auto_imported", "pending"),
            OldEntry(200 + i, i, "missing_data", "resolved"),
            [OldEntry(300 + i, i, "duplicate_dates", "resolved")
                EXCEPT !.item_type = "document"]} : i \in SessionIds}

InitRules ==
    /\ dry_run = TRUE /\ use_remote = FALSE /\ db_found = TRUE /\ faults = 0
    /\ \/ /\ criteria = <<"missing_data">>
          /\ db_sessions \in MissingStores
          /\ db_memberships = {} /\ db_absences = {} /\ review_queue = {}
       \/ /\ criteria = <<"duplicate_dates">>
          /\ db_sessions \in DupStores
          /\ db_memberships = {} /\ db_absences = {} /\ review_queue = {}
       \/ /\ criteria = <<"incomplete_attendance">>
          /\ db_sessions \in AttendStores
          /\ db_memberships \in MembershipTables
          /\ db_absences \in AbsenceTables
          /\ review_queue = {}
       \/ /\ criteria = <<"auto_imported">>
          /\ db_sessions \in AutoStores
          /\ db_memberships = {} /\ db_absences = {}
          /\ review_queue \in SUBSET QueueEntries
    /\ InitRun
    /\ LiteralIdle

NextRules ==
    \/ Main
    \/ RunCheckLocal
    \/ ProcessCandidate
    \/ FinishCriterion
    \/ Return

SpecRules == InitRules /\ [][NextRules]_vars

----------------------------------------------------------------------------
(* SpecLiteral: the remote writer's statement for session ids and           *)
(* descriptions that contain quotes and commas                              *)

Chars == {"a", "'", ","}
Texts == SeqsUpTo(Chars, MaxChars)
KindTexts == {<<"m">>, <<"d">>}

runvars == <<store, review_queue, invocation, pc, ci, sessions, si,
             flagged_count, results, exit_code, faults, fault_log, call,
             notice, run, first_results, rq_at_start, rq_at_fault,
             calls_made, calls_failed, found_sum, query_log, q_outcome,
             resources>>

\* flag_session_for_review is entered in remote mode with preview off.
InitLiteral ==
    /\ db_sessions = {} /\ db_memberships = {} /\ db_absences = {}
    /\ review_queue = {} /\ db_found = TRUE /\ faults = 0
    /\ criteria = <<>> /\ dry_run = FALSE /\ use_remote = TRUE
    /\ InitRun
    /\ lit_pc = "bound"
    /\ lit_session_id \in Texts
    /\ lit_issue_type \in KindTexts
    /\ lit_description \in Texts
    /\ lit_statement = <<>> /\ lit_parsed = NoParse

\* with open(sql_file, 'w') as f: f.write(sql)
WriteStatementFile ==
    /\ lit_pc = "bound"
    /\ lit_statement' = InsertStatement(lit_session_id, lit_issue_type,
                                        lit_description)
    /\ lit_pc' = "written"
    /\ UNCHANGED <<runvars, lit_session_id, lit_issue_type, lit_description,
                   lit_parsed>>

\* npx wrangler d1 execute --file=sql_file: the store reads the statement.
ExecuteStatementFile ==
    /\ lit_pc = "written"
    /\ lit_parsed' = ParseStatement(lit_statement)
    /\ lit_pc' = "executed"
    /\ UNCHANGED <<runvars, lit_session_id, lit_issue_type, lit_description,
                   lit_statement>>

NextLiteral ==
    \/ WriteStatementFile
    \/ ExecuteStatementFile

SpecLiteral == InitLiteral /\ [][NextLiteral]_vars

----------------------------------------------------------------------------
(* Properties of the detection rules (checked under SpecRules) *)

\* The current rule has returned and its rows are in `sessions`.
Detected(kind) == pc = "cand" /\ criteria[ci] = kind

Returned(s) == \E i \in 1..Len(sessions) : sessions[i].id = s.id

NullFields(s) ==
    {c \in {"date", "type", "term_id"} :
        \/ c = "date" /\ s.date = NULL
        \/ c = "type" /\ s.type = NULL
        \/ c = "term_id" /\ s.term_id = NULL}

Range(q) == {q[i] : i \in 1..Len(q)}

\* C3 (as claimed): a session is in the missing_data result iff its date,
\* type or term_id is NULL, and the description run_checks prints for a
\* returned session lists exactly the columns that are NULL in it.
C3_MissingDataExactNullFields ==
    /\ Detected("missing_data") =>
          \A s \in db_sessions :
              Returned(s) <=> (s.date = NULL \/ s.type = NULL \/ s.term_id = NULL)
    /\ notice.issue_type = "missing_data" =>
          \A s \in db_sessions :
              s.id = notice.session_id =>
                  /\ Range(notice.description.fields) = NullFields(s)
                  /\ Len(notice.description.fields) = Cardinality(NullFields(s))

\* C4: a session is in the duplicate_dates result iff its date is not NULL
\* and another session has the same date, each such session is listed once,
\* and the rows come by date ascending.
C4_DuplicateDates ==
    Detected("duplicate_dates") =>
        /\ \A s \in db_sessions :
              Returned(s) <=>
                  /\ s.date # NULL
                  /\ \E o \in db_sessions : o.id # s.id /\ o.date = s.date
        /\ \A i, j \in 1..Len(sessions) :
              /\ i < j => sessions[i].date <= sessions[j].date
              /\ i # j => sessions[i].id # sessions[j].id

\* Two shared dates are returned and a session with a date of its own and
\* one without a date are left out.
C4_Witness ==
    /\ Detected("duplicate_dates")
    /\ \E i, j \in 1..Len(sessions) : sessions[i].date < sessions[j].date
    /\ \E s \in db_sessions : s.date = NULL /\ ~Returned(s)

\* C5: a session is in the auto_imported result iff review_queue has no
\* resolved entry of item_type 'session' for it, whatever the issue kind; a
\* session with only pending entries is returned; rows come by created_at
\* descending.
C5_AutoImported ==
    Detected("auto_imported") =>
        /\ \A s \in db_sessions :
              Returned(s) <=>
                  ~\E r \in review_queue : /\ r.item_type = "session"
                                           /\ r.status = "resolved"
                                           /\ r.item_id = s.id
        /\ \A i, j \in 1..Len(sessions) :
              /\ i < j => sessions[i].created_at >= sessions[j].created_at
              /\ i # j => sessions[i].id # sessions[j].id

\* A session that has a pending entry is returned and a session that has a
\* resolved entry is left out.
C5_Witness ==
    /\ Detected("auto_imported")
    /\ \E s \in db_sessions :
          /\ Returned(s)
          /\ \E r \in review_queue :
                r.item_type = "session" /\ r.item_id = s.id /\ r.status = "pending"
    /\ \E s \in db_sessions :
          /\ ~Returned(s)
          /\ \E r \in review_queue :
                r.item_type = "session" /\ r.item_id = s.id /\ r.status = "resolved"

----------------------------------------------------------------------------
(* Properties of the writer and of the runs (checked under Spec) *)

EntriesFor(session_id, issue_type) ==
    {r \in review_queue : /\ r.item_type = "session"
                          /\ r.item_id = session_id
                          /\ r.issue_type = issue_type}

\* C1 (as claimed): with preview off and no failure of the environment, a
\* call of the writer for a pair (s, k) that only the writer has queued --
\* the first call or a repeated one, in local and in remote mode -- returns
\* True and leaves exactly one review_queue row for (s, k).
C1_FlagTwiceSucceeds ==
    (/\ call.session_id # NULL /\ ~call.dry /\ ~call.faulted
     /\ \A r \in EntriesFor(call.session_id, call.issue_type) : r.created_at > 0) =>
        /\ call.returned
        /\ Cardinality(EntriesFor(call.session_id, call.issue_type)) = 1

\* C2: in preview mode review_queue stays what it was when the invocation
\* started, and the found count recorded for a kind is the number of rows
\* the kind's rule returns on the store (or 0 when the remote query failed).
C2_PreviewLeavesQueue ==
    dry_run =>
        /\ review_queue = rq_at_start
        /\ \A k \in DOMAIN results.by_criteria :
              \A rows \in CheckFunction(k) :
                  \/ results.by_criteria[k].found = Len(rows)
                  \/ /\ "query" \in fault_log
                     /\ results.by_criteria[k].found = 0

\* A preview run has ended after the writer was called for two candidates.
C2_Witness ==
    /\ dry_run /\ pc = "done" /\ exit_code = 0
    /\ calls_made >= 2
    /\ \E k \in DOMAIN results.by_criteria : results.by_criteria[k].found >= 2

\* C7: in local mode with preview off and no failure, an invocation that
\* follows another one adds no row to review_queue and returns the same
\* per-kind found and flagged counts and the same total_flagged.
C7_RerunStable ==
    (run > 1 /\ pc = "done" /\ exit_code = 0
        /\ ~use_remote /\ ~dry_run /\ fault_log = {}) =>
        /\ review_queue = rq_at_start
        /\ results = first_results

\* The second invocation has ended after flagging again what the first one
\* inserted.
C7_Witness ==
    /\ run > 1 /\ pc = "done" /\ exit_code = 0
    /\ ~use_remote /\ ~dry_run /\ fault_log = {}
    /\ results.total_flagged >= 2
    /\ Cardinality({r \in review_queue : r.created_at > 0}) >= 2

\* C8 (as claimed): without a local store file and without remote mode the
\* invocation ends with a non-zero exit, no rule has returned a row and
\* nothing was written, whatever kinds were requested.
C8_SetupFailureExits ==
    (pc = "done" /\ ~db_found /\ ~use_remote) =>
        /\ exit_code # 0
        /\ found_sum = 0
        /\ calls_made = 0
        /\ review_queue = rq_at_start

\* C9: no step changes or removes a row of review_queue.
C9_InsertOnly == [][\A r \in review_queue : r \in review_queue']_vars

\* A queue that held a resolved entry has received a new row, and the writer
\* has just been called for a pair that was already queued.
C9_Witness ==
    /\ \E r \in rq_at_start : r.status = "resolved"
    /\ \E r \in review_queue : r \notin rq_at_start
    /\ call.existed /\ ~call.dry

\* C10: a writer call that fails returns False and is not counted; the run
\* goes on: unless a query fails as well, every candidate of every
\* recognized kind is handed to the writer, every recognized kind gets its
\* entry and the exit is 0; the rows present at the failure are still there.
C10_WriteFailureIsolated ==
    /\ call.faulted => ~call.returned
    /\ results.total_flagged + (IF pc = "cand" THEN flagged_count ELSE 0)
          = calls_made - calls_failed
    /\ (pc = "done" /\ "write" \in fault_log
            /\ "local_query" \notin fault_log) =>
          /\ exit_code = 0
          /\ calls_made = found_sum
          /\ \A i \in 1..Len(criteria) :
                criteria[i] \in check_functions =>
                    criteria[i] \in DOMAIN results.by_criteria
    /\ rq_at_fault \subseteq review_queue

\* A run has ended with exit 0 after one insert failed and a later one
\* succeeded.
C10_Witness ==
    /\ pc = "done" /\ exit_code = 0 /\ run = 1
    /\ calls_failed = 1 /\ "write" \in fault_log
    /\ \E r \in review_queue : r \notin rq_at_fault
    /\ \E r \in rq_at_fault : r \notin rq_at_start

----------------------------------------------------------------------------
(* Properties of the order of the run (checked under Spec) *)

Recognized(kinds) == SelectSeq(kinds, LAMBDA k : k \in check_functions)

LogKinds == [i \in 1..Len(query_log) |-> query_log[i].kind]

NewRows == review_queue \ rq_at_start

\* C11: the queries of an invocation are those of the recognized kinds of
\* the list, in the list's order; when the loop reaches a kind every
\* candidate of the kinds before it has been handed to the writer and the
\* writer is only called for the kind whose query came last; a kind that is
\* not recognized gets no query, no row and no by_criteria entry and the
\* kinds after it are still run.
C11_KindOrder ==
    /\ pc = "main" => query_log = <<>>
    /\ pc = "loop" =>
          /\ LogKinds = Recognized(SubSeq(criteria, 1, ci - 1))
          /\ calls_made = found_sum
          /\ DOMAIN results.by_criteria = Range(LogKinds)
    /\ pc = "cand" =>
          /\ LogKinds = Recognized(SubSeq(criteria, 1, ci))
          /\ call.issue_type \in {"", query_log[Len(query_log)].kind}
    /\ (pc = "done" /\ exit_code = 0) => LogKinds = Recognized(criteria)
    /\ \A r \in NewRows : r.issue_type \in Range(LogKinds)
    /\ DOMAIN results.by_criteria \subseteq check_functions

\* A run whose list starts with a kind that is not recognized has ended
\* after the kind that follows was queried and a row inserted for it.
C11_Witness ==
    /\ pc = "done" /\ exit_code = 0
    /\ Len(criteria) = 2 /\ criteria[1] \notin check_functions
    /\ Len(query_log) = 1 /\ query_log[1].kind = criteria[2]
    /\ NewRows # {}

----------------------------------------------------------------------------
(* Properties of connections and temporary files (checked under Spec) *)

\* C12 (as claimed): no connection is open between two calls of the
\* adapter or after the run: every connection a query or a write opened in
\* local mode is closed when the call returns or raises.
C12_ConnectionsClosed == open_conns = 0

----------------------------------------------------------------------------
(* Properties of the results (checked under Spec) *)

RECURSIVE SumFlagged(_, _)
SumFlagged(d, K) ==
    IF K = {} THEN 0
    ELSE LET k == CHOOSE x \in K : TRUE
         IN  d[k].flagged + SumFlagged(d, K \ {k})

\* C13 (as claimed): when run_checks has returned, whatever the list of
\* kinds (a kind may be named more than once), total_flagged is the sum of
\* the flagged counts of the by_criteria entries, and every entry has
\* 0 <= flagged <= found.
C13_TotalsAgree ==
    (pc = "done" /\ exit_code = 0) =>
        /\ results.total_flagged =
              SumFlagged(results.by_criteria, DOMAIN results.by_criteria)
        /\ \A k \in DOMAIN results.by_criteria :
              /\ 0 <= results.by_criteria[k].flagged
              /\ results.by_criteria[k].flagged <= results.by_criteria[k].found

----------------------------------------------------------------------------
(* Properties of query failures (checked under Spec) *)

\* C14: in local mode, when the query of a kind fails the invocation ends
\* with exit 1, the failed query is the last one made (no later kind is
\* run), nothing is written after it and the rows inserted for the kinds
\* before it are still in review_queue.
C14_QueryFailureAborts ==
    (pc = "done" /\ ~use_remote
        /\ \E i \in 1..Len(query_log) : query_log[i].failed) =>
        /\ exit_code = 1
        /\ query_log[Len(query_log)].failed
        /\ query_log[Len(query_log)].kind = criteria[ci]
        /\ LogKinds = Recognized(SubSeq(criteria, 1, ci))
        /\ review_queue = rq_at_fault
        /\ rq_at_start \subseteq review_queue

\* The query of the second kind has failed after rows were inserted for the
\* first kind.
C14_Witness ==
    /\ pc = "done" /\ exit_code = 1 /\ ~use_remote
    /\ Len(query_log) = 2 /\ query_log[2].failed /\ ~query_log[1].failed
    /\ NewRows # {}

\* C15: in remote mode, when the command of a kind's query exits non-zero,
\* is missing, or prints nothing or text that is not JSON, the kind's rule
\* returns no row, so nothing is written for it and its entry is found 0,
\* flagged 0; the kinds after it are run and the exit is 0.
C15_RemoteQueryFailureIsEmpty ==
    /\ (use_remote /\ pc = "done") =>
          /\ exit_code = 0
          /\ LogKinds = Recognized(criteria)
    /\ (pc = "cand" /\ q_outcome \in RemoteFailures) =>
          /\ sessions = <<>>
          /\ query_log[Len(query_log)].failed
          /\ query_log[Len(query_log)].ids = {}
    /\ (use_remote /\ pc \in {"loop", "done"} /\ Len(query_log) > 0) =>
          (query_log[Len(query_log)].failed =>
              results.by_criteria[query_log[Len(query_log)].kind]
                  = [found |-> 0, flagged |-> 0])
    /\ \A i \in 1..Len(query_log) :
          (use_remote /\ query_log[i].failed
                /\ \A j \in 1..Len(query_log) :
                      j # i => query_log[j].kind # query_log[i].kind) =>
              \A r \in NewRows : r.issue_type # query_log[i].kind

\* A remote run has ended with exit 0: the query of its first kind failed
\* and was recorded as found 0, flagged 0, and a row was inserted for the
\* kind after it.
C15_Witness ==
    /\ pc = "done" /\ exit_code = 0 /\ use_remote /\ ~dry_run
    /\ Len(query_log) = 2 /\ query_log[1].failed /\ ~query_log[2].failed
    /\ query_log[1].kind # query_log[2].kind
    /\ results.by_criteria[query_log[1].kind] = [found |-> 0, flagged |-> 0]
    /\ \E r \in NewRows : r.issue_type = query_log[2].kind

\* C16: in remote mode no temporary SQL file is left when a query or a
\* writer call has returned, whether its command succeeded, exited non-zero
\* or could not be found.
C16_TempFilesRemoved == temp_files = {}

\* A remote run in which the command of a query failed has just had a
\* writer call whose command failed too.
C16_Witness ==
    /\ use_remote /\ pc = "cand" /\ temp_files = {}
    /\ call.remote /\ ~call.dry /\ ~call.returned
    /\ \E i \in 1..Len(query_log) : query_log[i].failed
    /\ \E i \in 1..Len(query_log) : ~query_log[i].failed

----------------------------------------------------------------------------
(* Properties of the remote statement (checked under SpecLiteral) *)

\* C17 (as claimed): in the statement the remote writer writes, the session
\* id, the issue kind and the description are embedded with each quote
\* doubled, and what the store reads in it is exactly the seven values the
\* local insert binds.
C17_LiteralsEscaped ==
    /\ lit_pc \in {"written", "executed"} =>
          lit_statement =
              <<"(">>
              \o JoinValues(<<Quoted(ReviewIdText), Quoted(ItemTypeText),
                              Quoted(Escape(lit_session_id)),
                              Quoted(Escape(lit_issue_type)),
                              Quoted(Escape(lit_description)),
                              Quoted(StatusText), Quoted(NowText)>>)
              \o <<")">>
    /\ lit_pc = "executed" =>
          /\ lit_parsed.ok
          /\ lit_parsed.values =
                BoundValues(lit_session_id, lit_issue_type, lit_description)

----------------------------------------------------------------------------
(* Properties of the inserted rows *)

\* In the runs of Spec, whose session ids hold no quote character, every row
\* the current invocation has inserted has item_type 'session' and status
\* 'pending', its issue_type is one of the four kinds, and its item_id is
\* the id of a session that the rule of that kind returned.
RunEntryShape ==
    \A r \in NewRows :
        /\ r.item_type = "session"
        /\ r.status = "pending"
        /\ r.issue_type \in check_functions
        /\ \E i \in 1..Len(query_log) :
              /\ query_log[i].kind = r.issue_type
              /\ r.item_id \in query_log[i].ids

\* The rows the executed statement inserts: the store takes a statement
\* that gives a value to each of the seven columns.
InsertedValues ==
    IF lit_pc = "executed" /\ lit_parsed.ok /\ Len(lit_parsed.values) = 7
    THEN {lit_parsed.values}
    ELSE {}

\* C18 (as claimed, checked under SpecLiteral): a row the writer inserts
\* for a candidate has item_type 'session', status 'pending', the
\* candidate's session id as item_id and the kind of the candidate's rule as
\* issue_type.
C18_EntryShape ==
    \A v \in InsertedValues :
        /\ v[2] = ItemTypeText
        /\ v[6] = StatusText
        /\ v[3] = lit_session_id
        /\ v[4] = lit_issue_type

====
